---- MODULE Spec2Model ----
(***************************************************************************)
(* Model of backend/server.py: the FastAPI submission service (contact     *)
(* forms, newsletter subscriptions, listings, health probe) together with  *)
(* the MongoDB collections it reads and writes.                            *)
(*                                                                         *)
(* A JSON request body is a record whose DOMAIN is the set of keys the     *)
(* caller sent.  Every field value is a string; JSON null / Python None is *)
(* the reserved value None.  A response body is a sequence of records: one *)
(* record for a POST, the listed records for a GET, empty for an error.    *)
(***************************************************************************)
EXTENDS Integers, Sequences, FiniteSets, TLC

\* ---- bounds -------------------------------------------------------------
MaxRequests == 2      \* POST requests admitted over a whole behaviour
MaxInFlight == 2      \* POST requests suspended at the store call at once

\* ---- values -------------------------------------------------------------
None == "<None>"

\* uuid.uuid4() as a string: the n-th request draws the n-th fresh value
UUIDs == <<"uuid-1", "uuid-2", "uuid-3", "uuid-4", "uuid-5", "uuid-6">>

\* datetime.now(timezone.utc).isoformat() at clock value t = 0, 1, ...
Timestamps == <<"2025-01-01T00:00:00+00:00", "2025-01-01T00:00:01+00:00",
                "2025-01-01T00:00:02+00:00", "2025-01-01T00:00:03+00:00",
                "2025-01-01T00:00:04+00:00", "2025-01-01T00:00:05+00:00",
                "2025-01-01T00:00:06+00:00">>

\* the clock readings a request arriving at clock value t may see: the clock
\* is read when a model is built, and has or has not advanced since the
\* previous reading
Now(t) == {t, t + 1}

\* request bodies posted to /api/contact
ContactBodies ==
    { [name |-> "Sarah Johnson", email |-> "a@b.com",
       company |-> "TechCorp Solutions", plan_interest |-> "Professional"],
      [name |-> "", email |-> "a@b.com"],
      [name |-> ""],
      [name |-> "Ann", email |-> ""],
      [id |-> "caller-id", name |-> "Ann", email |-> "x@y.com"] }

\* request bodies posted to /api/newsletter
NewsletterBodies ==
    { [email |-> "x@y.com"],
      [email |-> "a@b.com"],
      [email |-> "not-an-email"],
      [id |-> "caller-id"] }

VARIABLES
    phase,             \* "starting": before the startup event; "serving"
    store_up,          \* the MongoDB server answers commands
    unique_index,      \* db.newsletter has the unique index on email
    contacts,          \* db.contacts, in scan order
    newsletter,        \* db.newsletter, in scan order
    next_oid,          \* next ObjectId the driver assigns as _id
    nreq,              \* POST requests admitted so far
    clock,             \* wall clock
    pending,           \* validated POST requests awaiting insert_one
    last,              \* the most recent HTTP response
    returned_contacts  \* records returned by successful POST /api/contact

vars == <<phase, store_up, unique_index, contacts, newsletter, next_oid,
          nreq, clock, pending, last, returned_contacts>>

\* ---- pydantic models ----------------------------------------------------
Get(body, key, default) == IF key \in DOMAIN body THEN body[key] ELSE default

\* a key that, when present, must carry a str
StrOrAbsent(body, key) == key \in DOMAIN body => body[key] # None

\* a required str key
StrRequired(body, key) == key \in DOMAIN body /\ body[key] # None

ContactFormValid(body) ==
    /\ StrOrAbsent(body, "id")
    /\ StrRequired(body, "name")
    /\ StrRequired(body, "email")
    /\ StrOrAbsent(body, "created_at")

\* ContactForm(**body); uuid and now feed the two default factories
ContactForm(body, uuid, now) ==
    [id            |-> Get(body, "id", uuid),
     name          |-> body["name"],
     email         |-> body["email"],
     company       |-> Get(body, "company", None),
     phone         |-> Get(body, "phone", None),
     message       |-> Get(body, "message", None),
     plan_interest |-> Get(body, "plan_interest", None),
     created_at    |-> Get(body, "created_at", now)]

NewsletterValid(body) ==
    /\ StrOrAbsent(body, "id")
    /\ StrRequired(body, "email")
    /\ StrOrAbsent(body, "created_at")

\* Newsletter(**body)
Newsletter(body, uuid, now) ==
    [id         |-> Get(body, "id", uuid),
     email      |-> body["email"],
     created_at |-> Get(body, "created_at", now)]

\* ---- helpers ------------------------------------------------------------
strip_mongo_id(doc) ==
    IF DOMAIN doc = {} THEN doc
    ELSE [k \in DOMAIN doc \ {"_id"} |-> doc[k]]

\* ---- the document store -------------------------------------------------
\* A store call made while the server does not answer raises and applies
\* nothing; a call made while it answers is applied atomically.  find()
\* scans a collection in insertion order.
\* the document insert_one writes: the dumped model plus the driver's _id
WithOid(dump, oid) ==
    [k \in DOMAIN dump \cup {"_id"} |-> IF k = "_id" THEN oid ELSE dump[k]]

\* variant: the unique index is built on created_at instead of email
DuplicateKey_created_at(coll, dump, indexed) ==
    indexed /\ \E i \in DOMAIN coll : coll[i]["created_at"] = dump["created_at"]

\* the unique index on email rejects the document (DuplicateKeyError)
DuplicateKey(coll, dump, indexed) ==
    indexed /\ \E i \in DOMAIN coll : coll[i]["email"] = dump["email"]

\* variant: the write replaces the stored document with the same email
insert_one_upsert(coll, dump, oid) ==
    IF \E i \in DOMAIN coll : coll[i]["email"] = dump["email"]
    THEN [i \in DOMAIN coll |->
            IF coll[i]["email"] = dump["email"] THEN WithOid(dump, coll[i]["_id"])
            ELSE coll[i]]
    ELSE Append(coll, WithOid(dump, oid))

\* collection.insert_one(dump) on a reachable store
insert_one(coll, dump, oid) == Append(coll, WithOid(dump, oid))

\* create_index("email", unique=True) can build the index over coll
CanBuildUnique(coll) ==
    \A i, j \in DOMAIN coll : coll[i]["email"] = coll[j]["email"] => i = j

\* ---- responses ----------------------------------------------------------
Response(op, rid, status, detail, req, body) ==
    [op |-> op, rid |-> rid, status |-> status, detail |-> detail,
     req |-> req, body |-> body]

NoResponse == Response("none", 0, 0, "", <<>>, <<>>)

\* FastAPI's reply when the body does not validate against the model
ValidationFailed(op, body) ==
    Response(op, 0, 422, "Unprocessable Entity", <<body>>, <<>>)

Init ==
    /\ phase = "starting"
    /\ store_up \in BOOLEAN
    /\ unique_index = FALSE
    /\ contacts = <<>>
    /\ newsletter = <<>>
    /\ next_oid = 1
    /\ nreq = 0
    /\ clock = 0
    /\ pending = {}
    /\ last = NoResponse
    /\ returned_contacts = <<>>

\* ---- environment --------------------------------------------------------
StoreFails ==
    /\ store_up
    /\ store_up' = FALSE
    /\ UNCHANGED <<phase, unique_index, contacts, newsletter, next_oid,
                   nreq, clock, pending, last, returned_contacts>>

StoreRecovers ==
    /\ ~store_up
    /\ store_up' = TRUE
    /\ UNCHANGED <<phase, unique_index, contacts, newsletter, next_oid,
                   nreq, clock, pending, last, returned_contacts>>

\* the process exits (no request in flight) and is started again
Restart ==
    /\ phase = "serving"
    /\ pending = {}
    /\ phase' = "starting"
    /\ last' = NoResponse
    /\ UNCHANGED <<store_up, unique_index, contacts, newsletter, next_oid,
                   nreq, clock, pending, returned_contacts>>

\* ---- startup ------------------------------------------------------------
\* ping, then create_index; any exception is logged and swallowed, and the
\* application goes on to serve requests
ensure_indexes ==
    /\ phase = "starting"
    /\ phase' = "serving"
    /\ unique_index' = IF store_up /\ CanBuildUnique(newsletter)
                       THEN TRUE ELSE unique_index
    /\ UNCHANGED <<store_up, contacts, newsletter, next_oid, nreq, clock,
                   pending, last, returned_contacts>>

\* ---- routes -------------------------------------------------------------
\* variant: the failed ping is reported as a generic 500
health_check_generic ==
    /\ phase = "serving"
    /\ last' = IF store_up
               THEN Response("health", 0, 200, "", <<>>,
                             <<[status |-> "healthy", database |-> "connected"]>>)
               ELSE Response("health", 0, 500, "Internal Server Error", <<>>, <<>>)
    /\ UNCHANGED <<phase, store_up, unique_index, contacts, newsletter,
                   next_oid, nreq, clock, pending, returned_contacts>>

health_check ==
    /\ phase = "serving"
    /\ last' = IF store_up
               THEN Response("health", 0, 200, "", <<>>,
                             <<[status |-> "healthy", database |-> "connected"]>>)
               ELSE Response("health", 0, 503, "Service unavailable", <<>>, <<>>)
    /\ UNCHANGED <<phase, store_up, unique_index, contacts, newsletter,
                   next_oid, nreq, clock, pending, returned_contacts>>

\* POST /api/contact arrives: FastAPI builds ContactForm from the body and
\* either replies 422 or enters the handler, which suspends at insert_one
PostContact(body) ==
    /\ phase = "serving"
    /\ IF ContactFormValid(body)
       THEN /\ nreq < MaxRequests
            /\ Cardinality(pending) < MaxInFlight
            /\ nreq' = nreq + 1
            /\ pending' = pending \cup
                 {[op |-> "contact", rid |-> nreq + 1, body |-> body,
                   model |-> ContactForm(body, UUIDs[nreq + 1],
                                         Timestamps[clock + 1])]}
            /\ UNCHANGED last
       ELSE /\ last' = ValidationFailed("contact", body)
            /\ UNCHANGED <<nreq, pending>>
    /\ UNCHANGED <<phase, store_up, unique_index, contacts, newsletter,
                   next_oid, clock, returned_contacts>>

\* variant: a contact whose email is already stored is turned away
submit_contact_form_dedup(p) ==
    /\ phase = "serving"
    /\ p \in pending /\ p.op = "contact"
    /\ pending' = pending \ {p}
    /\ IF ~store_up
       THEN /\ last' = Response("contact", p.rid, 500,
                                "Failed to submit contact form", <<p.body>>, <<>>)
            /\ UNCHANGED <<contacts, next_oid, returned_contacts>>
       ELSE IF \E i \in DOMAIN contacts : contacts[i]["email"] = p.model["email"]
       THEN /\ last' = Response("contact", p.rid, 400,
                                "Email already submitted", <<p.body>>, <<>>)
            /\ UNCHANGED <<contacts, next_oid, returned_contacts>>
       ELSE /\ contacts' = insert_one(contacts, p.model, next_oid)
            /\ next_oid' = next_oid + 1
            /\ last' = Response("contact", p.rid, 200, "", <<p.body>>, <<p.model>>)
            /\ returned_contacts' = Append(returned_contacts, p.model)
    /\ UNCHANGED <<phase, store_up, unique_index, newsletter, nreq, clock>>

\* variant: the exception of insert_one is swallowed and the record returned
submit_contact_form_swallow(p) ==
    /\ phase = "serving"
    /\ p \in pending /\ p.op = "contact"
    /\ pending' = pending \ {p}
    /\ last' = Response("contact", p.rid, 200, "", <<p.body>>, <<p.model>>)
    /\ returned_contacts' = Append(returned_contacts, p.model)
    /\ IF store_up
       THEN /\ contacts' = insert_one(contacts, p.model, next_oid)
            /\ next_oid' = next_oid + 1
       ELSE UNCHANGED <<contacts, next_oid>>
    /\ UNCHANGED <<phase, store_up, unique_index, newsletter, nreq, clock>>

\* the handler body, from the store's answer to insert_one to the reply
submit_contact_form(p) ==
    /\ phase = "serving"
    /\ p \in pending /\ p.op = "contact"
    /\ pending' = pending \ {p}
    /\ IF store_up
       THEN /\ contacts' = insert_one(contacts, p.model, next_oid)
            /\ next_oid' = next_oid + 1
            /\ last' = Response("contact", p.rid, 200, "", <<p.body>>, <<p.model>>)
            /\ returned_contacts' = Append(returned_contacts, p.model)
       ELSE /\ last' = Response("contact", p.rid, 500,
                                "Failed to submit contact form", <<p.body>>, <<>>)
            /\ UNCHANGED <<contacts, next_oid, returned_contacts>>
    /\ UNCHANGED <<phase, store_up, unique_index, newsletter, nreq, clock>>

\* POST /api/newsletter arrives
PostNewsletter(body) ==
    /\ phase = "serving"
    /\ IF NewsletterValid(body)
       THEN /\ nreq < MaxRequests
            /\ Cardinality(pending) < MaxInFlight
            /\ nreq' = nreq + 1
            /\ pending' = pending \cup
                 {[op |-> "newsletter", rid |-> nreq + 1, body |-> body,
                   model |-> Newsletter(body, UUIDs[nreq + 1],
                                        Timestamps[clock + 1])]}
            /\ UNCHANGED last
       ELSE /\ last' = ValidationFailed("newsletter", body)
            /\ UNCHANGED <<nreq, pending>>
    /\ UNCHANGED <<phase, store_up, unique_index, contacts, newsletter,
                   next_oid, clock, returned_contacts>>

subscribe_newsletter(p) ==
    /\ phase = "serving"
    /\ p \in pending /\ p.op = "newsletter"
    /\ pending' = pending \ {p}
    /\ IF ~store_up
       THEN /\ last' = Response("newsletter", p.rid, 500,
                                "Failed to subscribe to newsletter",
                                <<p.body>>, <<>>)
            /\ UNCHANGED <<newsletter, next_oid>>
       ELSE IF DuplicateKey(newsletter, p.model, unique_index)
       THEN /\ last' = Response("newsletter", p.rid, 400,
                                "Email already subscribed", <<p.body>>, <<>>)
            /\ UNCHANGED <<newsletter, next_oid>>
       ELSE /\ newsletter' = insert_one(newsletter, p.model, next_oid)
            /\ next_oid' = next_oid + 1
            /\ last' = Response("newsletter", p.rid, 200, "", <<p.body>>,
                                <<p.model>>)
    /\ UNCHANGED <<phase, store_up, unique_index, contacts, nreq, clock,
                   returned_contacts>>

\* variant: the documents are returned as the store delivers them
ContactList_raw(docs, uuid, now) == docs

\* [ContactForm(**strip_mongo_id(c)) for c in docs]; a document that does
\* not validate raises
ContactList(docs, uuid, now) ==
    [i \in DOMAIN docs |-> ContactForm(strip_mongo_id(docs[i]), uuid, now)]

get_contacts ==
    /\ phase = "serving"
    /\ last' = IF store_up
                  /\ \A i \in DOMAIN contacts :
                        ContactFormValid(strip_mongo_id(contacts[i]))
               THEN Response("contacts", 0, 200, "", <<>>,
                             ContactList(contacts, UUIDs[nreq + 1],
                                         Timestamps[clock + 1]))
               ELSE Response("contacts", 0, 500, "Failed to fetch contacts",
                             <<>>, <<>>)
    /\ UNCHANGED <<phase, store_up, unique_index, contacts, newsletter,
                   next_oid, nreq, clock, pending, returned_contacts>>

SubscriberList(docs, uuid, now) ==
    [i \in DOMAIN docs |-> Newsletter(strip_mongo_id(docs[i]), uuid, now)]

get_subscribers ==
    /\ phase = "serving"
    /\ last' = IF store_up
                  /\ \A i \in DOMAIN newsletter :
                        NewsletterValid(strip_mongo_id(newsletter[i]))
               THEN Response("subscribers", 0, 200, "", <<>>,
                             SubscriberList(newsletter, UUIDs[nreq + 1],
                                            Timestamps[clock + 1]))
               ELSE Response("subscribers", 0, 500,
                             "Failed to fetch subscribers", <<>>, <<>>)
    /\ UNCHANGED <<phase, store_up, unique_index, contacts, newsletter,
                   next_oid, nreq, clock, pending, returned_contacts>>

Next ==
    \/ StoreFails
    \/ StoreRecovers
    \/ Restart
    \/ ensure_indexes
    \/ health_check
    \/ \E body \in ContactBodies : PostContact(body)
    \/ \E p \in pending : submit_contact_form(p)
    \/ \E body \in NewsletterBodies : PostNewsletter(body)
    \/ \E p \in pending : subscribe_newsletter(p)
    \/ get_contacts
    \/ get_subscribers

Spec == Init /\ [][Next]_vars

\* ---- vocabulary of the properties ---------------------------------------
\* number of documents of coll whose email is e
EmailCount(coll, e) == Cardinality({i \in DOMAIN coll : coll[i]["email"] = e})

\* the request p leaves the handler in this step
Handled(p) == p \in pending /\ p \notin pending'

\* the body carries a non-empty value under key
Provided(body, key) == key \in DOMAIN body /\ body[key] \notin {None, ""}

\* the strings of the request bodies that are in valid email syntax
WellFormedEmails == {"a@b.com", "x@y.com"}

ClientError == {400, 422}

\* C1: two subscriptions with the same email never both succeed: the
\* newsletter collection holds at most one subscriber record per email, and
\* a subscription answered 200 is the only record with its email.
C1_OneRecordPerEmail ==
    /\ \A i, j \in DOMAIN newsletter :
          newsletter[i]["email"] = newsletter[j]["email"] => i = j
    /\ (last.op = "newsletter" /\ last.status = 200)
          => EmailCount(newsletter, last.body[1]["email"]) = 1

\* C2: no subscription request is accepted or processed while the newsletter
\* collection lacks the unique email index, whether or not the startup ping
\* or index creation failed.
C2_IndexBeforeSubscriptions ==
    /\ phase = "serving" => unique_index
    /\ \A p \in pending : p.op = "newsletter" => unique_index

\* C3: a subscription whose email is already stored is answered 400 "Email
\* already subscribed" (the store being reachable), never 200, 422 or 500,
\* and leaves the newsletter collection unchanged.
C3_DuplicateRejected ==
    [][\A p \in pending :
          (/\ Handled(p)
           /\ p.op = "newsletter"
           /\ store_up
           /\ EmailCount(newsletter, p.model["email"]) > 0)
          => /\ last'.status = 400
             /\ last'.detail = "Email already subscribed"
             /\ newsletter' = newsletter]_vars

\* C4: a contact submission whose name or email is missing or empty is
\* answered with a 400/422 client error before any store call: it is never
\* admitted to the handler and never answered otherwise.
C4_EmptyNameOrEmailRejected ==
    /\ \A p \in pending :
          p.op = "contact"
             => Provided(p.body, "name") /\ Provided(p.body, "email")
    /\ (last.op = "contact" /\ last.status \notin ClientError)
          => Provided(last.req[1], "name") /\ Provided(last.req[1], "email")
    /\ \A i \in DOMAIN contacts :
          contacts[i]["name"] # "" /\ contacts[i]["email"] # ""

\* C5: a subscription whose email is not in valid email syntax is answered
\* with a 400/422 client error before any store call, and no subscriber
\* record with such an email is stored.
C5_MalformedEmailRejected ==
    /\ \A p \in pending :
          p.op = "newsletter" => p.body["email"] \in WellFormedEmails
    /\ (last.op = "newsletter" /\ last.status \notin ClientError)
          => last.req[1]["email"] \in WellFormedEmails
    /\ \A i \in DOMAIN newsletter : newsletter[i]["email"] \in WellFormedEmails

\* C6: the id of a record returned by a successful contact submission is
\* never the value the caller put in the request body, and the ids of the
\* stored contacts are pairwise distinct.
C6_ServiceGeneratedId ==
    /\ (last.op = "contact" /\ last.status = 200 /\ "id" \in DOMAIN last.req[1])
          => last.body[1]["id"] # last.req[1]["id"]
    /\ \A i, j \in DOMAIN contacts :
          contacts[i]["id"] = contacts[j]["id"] => i = j

\* C7: with the store reachable, listing the contacts answers 200 with
\* exactly the records the successful submissions returned, one per stored
\* document, none carrying the storage identifier _id; on an empty store the
\* list is empty.
C7_ListContactsRoundTrip ==
    [][(last' # last /\ last'.op = "contacts" /\ store_up)
          => /\ last'.status = 200
             /\ last'.body = returned_contacts
             /\ Len(last'.body) = Len(contacts)
             /\ \A i \in DOMAIN last'.body : "_id" \notin DOMAIN last'.body[i]
             /\ contacts = <<>> => last'.body = <<>>]_vars

C7_Witness ==
    /\ last.op = "contacts"
    /\ last.status = 200
    /\ Len(last.body) = 2
    /\ last.body[1]["id"] = "caller-id"
    /\ contacts[1]["_id"] = 1

\* C8: the health check answers 200 {status: healthy, database: connected}
\* when the store answers the ping and 503 "Service unavailable" when it
\* does not, never another status, and changes neither collection.
C8_HealthCheck ==
    [][(last' # last /\ last'.op = "health")
          => /\ store_up
                  => /\ last'.status = 200
                     /\ last'.body = <<[status |-> "healthy",
                                        database |-> "connected"]>>
             /\ ~store_up
                  => /\ last'.status = 503
                     /\ last'.detail = "Service unavailable"
                     /\ last'.body = <<>>
             /\ UNCHANGED <<contacts, newsletter>>]_vars

C8_Witness ==
    /\ last.op = "health"
    /\ last.status = 503
    /\ ~store_up
    /\ Len(newsletter) > 0

\* C9: with the store reachable, a subscription whose email is not yet
\* stored succeeds: it is answered 200 with its record (id, email,
\* created_at), that record is appended to the newsletter collection, and
\* the collection then holds exactly one record with that email.
C9_DistinctEmailsSucceed ==
    [][\A p \in pending :
          (/\ Handled(p)
           /\ p.op = "newsletter"
           /\ store_up
           /\ EmailCount(newsletter, p.model["email"]) = 0)
          => /\ last'.status = 200
             /\ last'.body = <<p.model>>
             /\ DOMAIN p.model = {"id", "email", "created_at"}
             /\ p.model["email"] = p.body["email"]
             /\ Len(newsletter') = Len(newsletter) + 1
             /\ strip_mongo_id(newsletter'[Len(newsletter')]) = p.model
             /\ \A i \in DOMAIN newsletter : newsletter'[i] = newsletter[i]
             /\ EmailCount(newsletter', p.model["email"]) = 1]_vars

C9_Witness ==
    /\ last.op = "newsletter"
    /\ last.status = 200
    /\ unique_index
    /\ Len(newsletter) = 2
    /\ newsletter[1]["email"] # newsletter[2]["email"]
    /\ newsletter[1]["created_at"] = newsletter[2]["created_at"]

\* the generic failure message of each operation
GenericMessage(op) ==
    CASE op = "contact"     -> "Failed to submit contact form"
      [] op = "newsletter"  -> "Failed to subscribe to newsletter"
      [] op = "contacts"    -> "Failed to fetch contacts"
      [] op = "subscribers" -> "Failed to fetch subscribers"

\* C10: when the store call of a submission, a subscription or a listing
\* fails because the store is unreachable, the operation is answered 500 with
\* its fixed generic message and no record, and both collections are left as
\* they were.
C10_StorageError ==
    [][/\ \A p \in pending :
             (Handled(p) /\ ~store_up)
             => /\ last'.op = p.op
                /\ last'.status = 500
                /\ last'.detail = GenericMessage(p.op)
                /\ last'.body = <<>>
                /\ UNCHANGED <<contacts, newsletter>>
       /\ (last' # last /\ last'.op \in {"contacts", "subscribers"} /\ ~store_up)
             => /\ last'.status = 500
                /\ last'.detail = GenericMessage(last'.op)
                /\ last'.body = <<>>
                /\ UNCHANGED <<contacts, newsletter>>]_vars

C10_Witness ==
    /\ last.op = "newsletter"
    /\ last.status = 500
    /\ last.detail = "Failed to subscribe to newsletter"
    /\ ~store_up
    /\ Len(newsletter) = 1
    /\ newsletter[1]["email"] = last.req[1]["email"]

\* C11: with the store reachable, every admitted contact submission is
\* answered 200 and appends exactly its one record to the contacts
\* collection, leaving the newsletter collection as it was, whether or not
\* its email is already held by a contact or by a subscriber.
C11_ContactAlwaysAppended ==
    [][\A p \in pending :
          (Handled(p) /\ p.op = "contact" /\ store_up)
          => /\ last'.status = 200
             /\ Len(contacts') = Len(contacts) + 1
             /\ strip_mongo_id(contacts'[Len(contacts')]) = p.model
             /\ \A i \in DOMAIN contacts : contacts'[i] = contacts[i]
             /\ newsletter' = newsletter]_vars

C11_Witness ==
    /\ last.op = "contact"
    /\ last.status = 200
    /\ Len(contacts) = 2
    /\ contacts[1]["email"] = contacts[2]["email"]
    /\ contacts[1]["id"] # contacts[2]["id"]

\* the document doc is held by coll
Holds(coll, doc) == \E i \in DOMAIN coll : coll[i] = doc

\* C12: a stored contact or subscriber document is still stored, with the
\* same values in every field, after every step of the service, successful
\* or failed: nothing is updated, overwritten or deleted.
C12_RecordsImmutable ==
    [][/\ \A i \in DOMAIN contacts : Holds(contacts', contacts[i])
       /\ \A i \in DOMAIN newsletter : Holds(newsletter', newsletter[i])]_vars

C12_Witness ==
    /\ last.op = "newsletter"
    /\ last.status = 400
    /\ Len(newsletter) = 1
    /\ newsletter[1]["email"] = last.req[1]["email"]
    /\ newsletter[1]["id"] = "uuid-1"
====
